---- MODULE Spec2Model ----
(***************************************************************************)
(* Gesture-to-scene-state mapping and photo-focus state machine of the     *)
(* Christmas-tree viewer: the render tick of src/App.tsx (PhotoGroup and   *)
(* Scene useFrame callbacks, click handlers, handleGestureUpdate) and the  *)
(* inference loop of the GestureController component.                      *)
(*                                                                         *)
(* Numbers.  Floats are fixed-point with denominator Scale (1.0 = 1000):   *)
(* progress, dispersion, rotation and cursor coordinates.  Frame deltas    *)
(* are in milliseconds.  Scene yaw and the camera azimuth are angles kept  *)
(* modulo YawWrap angular units.                                           *)
(***************************************************************************)
EXTENDS Integers, Sequences, FiniteSets, TLC

\* ---------------------------------------------------------------- bounds
\* Number of photos the mount effect creates (TOTAL_PHOTOS, scaled down).
NumPhotos == 2
\* Angles (scene yaw, camera azimuth) are tracked modulo this many units.
YawWrap == 3
\* Number of times gesture mode can be switched on.
MaxEpochs == 2

\* Frames of 200 ms are followed only while every progress value is within
\* this distance (in 1/1000) of the interval [0, 1].
MaxDrift == 1000

\* Fixed-point denominator: the real number 1.0.
Scale == 10 * 100

MOUSE == "MOUSE"
GESTURE == "GESTURE"

\* Frame deltas (ms) handed to the useFrame callbacks.
SlowDeltas == {90, 110}
UnitDeltas == {100}
\* Frames of a render loop that runs at five frames per second.
LongDeltas == {200}
\* Frames after a stall of the render loop (a hidden tab).
StallDeltas == {350, 450}
\* Camera azimuths OrbitControls can leave the camera at.
CamAzimuths == 0 .. (YawWrap - 1)

VARIABLES
  interactionMode,  \* App state: MOUSE or GESTURE
  photos,           \* App state: sequence of PhotoData
  gestureRef,       \* gestureRef.current, the shared control record
  progress,         \* PhotoGroup progress.current, per photo index
  lockedState,      \* PhotoGroup lockedState.current, per photo index
  pose,             \* transform last written to each PhotoGroup's group
  yaw,              \* Scene groupRef.current.rotation.y
  prevPinch,        \* isPinching as the previous render frame read it
  yawStep,          \* speed * delta added to rotation.y by the last render frame
  uDispersion,      \* ChristmasTreeParticles shaderMaterial.uniforms.uDispersion.value
  isHandDetectedState, \* App state isHandDetected (UI only)
  isLoaded,         \* GestureController state isLoaded
  handLandmarker,   \* handLandmarkerRef.current is non-null
  initsPending,     \* init() calls awaiting the landmarker
  initFailed,       \* some init() call has ended in its catch block
  landmarkers,      \* HandLandmarker instances created so far
  epoch,            \* times gesture mode was enabled; names the loop effect run
  loop,             \* per run of the loop effect: its closure and video element
  requestRef,       \* requestRef.current: 0, or the run whose request it holds
  lastTick,         \* what the last predictWebcam invocation did
  processed,        \* results of the last two processed video frames
  lastHand          \* measurements of the hand in the last detector result, if any

frameVars == <<progress, lockedState, pose, yaw, prevPinch, yawStep, uDispersion>>
ctlVars == <<isLoaded, handLandmarker, initsPending, initFailed, landmarkers, epoch, loop,
             requestRef, lastTick, processed>>
vars == <<interactionMode, photos, gestureRef, progress, lockedState, pose, yaw, prevPinch,
          yawStep,
          uDispersion,
          isHandDetectedState, isLoaded, handLandmarker, initsPending, initFailed, landmarkers,
          epoch, loop, requestRef, lastTick, processed, lastHand>>

\* ------------------------------------------------------------ arithmetic
Abs(x) == IF x < 0 THEN -x ELSE x

\* n / d rounded to the nearest integer (d > 0).
RoundDiv(n, d) == (2 * n + d) \div (2 * d)

\* THREE.MathUtils.lerp(x, y, t) = (1 - t) * x + t * y with t = tNum / tDen.
Lerp(x, y, tNum, tDen) == RoundDiv((tDen - tNum) * x + tNum * y, tDen)

\* Optional JS fields: <<>> is undefined, <<v>> is the value v.
Undefined == <<>>
Truthy(opt) == opt # <<>> /\ opt[1]

\* focusedId: 0 is null, i >= 1 is the string `photo-${i}`.
NullId == 0

\* ------------------------------------------------------------ the photos
PhotoId_dup(i) == 1

\* id: `photo-${i}`
PhotoId(i) == i

\* The photo list the mount effect builds (i = 1 .. TOTAL_PHOTOS).
InitialPhotos == [i \in 1 .. NumPhotos |-> [id |-> PhotoId(i)]]

PhotoIdx == 1 .. NumPhotos

\* ------------------------------------------------------- PhotoGroup frame
\* Vector3.lerpVectors / Quaternion.slerpQuaternions / scale lerp between a
\* tree value a and a locked value b: a at t = 0, b at t = 1, and a value
\* depending on a, b and t otherwise.
Blend(a, b, t) ==
  IF t = 0 THEN [a |-> a, b |-> a, t |-> 0]
  ELSE IF t = Scale THEN [a |-> b, b |-> b, t |-> Scale]
  ELSE [a |-> a, b |-> b, t |-> t]

\* The value written directly (position.set / rotation.set / scale.set).
Exact(a) == [a |-> a, b |-> a, t |-> 0]

ActiveDispersion_anyMode(mode, dispersion) == dispersion

\* activeDispersion
ActiveDispersion(mode, dispersion) == IF mode = GESTURE THEN dispersion ELSE 0

\* Tree-state transform of photo idx under active dispersion ad.
TreePos(idx, ad) == [kind |-> "tree", of |-> idx, at |-> ad]
TreeQuat(idx) == [kind |-> "tree", of |-> idx, at |-> 0]
TreeScale(ad) == [kind |-> "scale", of |-> 0, at |-> Scale + ad \div 2]

\* Locked transform: the camera pose expressed in the parent's frame
\* (parentInverse applied to the camera-relative target).
LockedPos(cam, y) == [kind |-> "cam", of |-> 0, at |-> (cam - y) % YawWrap]
LockedQuat(cam, y) == [kind |-> "cam", of |-> 0, at |-> (cam - y) % YawWrap]
LockedScale == [kind |-> "scale", of |-> 0, at |-> 3 * Scale]

NoLock == <<>>

\* progress.current after the lerp with factor 10 * delta.
LerpProgress(p, target, deltaMs) == Lerp(p, target, deltaMs, 100)

\* Snap to target when very close.
SnapProgress(p, target) == IF Abs(p - target) < Scale \div 100 THEN target ELSE p

TargetProgress(focusedId, id) == IF focusedId = id THEN Scale ELSE 0

NextProgress(p, focusedId, id, deltaMs) ==
  SnapProgress(LerpProgress(p, TargetProgress(focusedId, id), deltaMs),
               TargetProgress(focusedId, id))

AtRest_zeroOnly(p) == p = 0

\* progress.current < 0.001
AtRest(p) == 1000 * p < Scale

\* progress.current >= 0.99
NearlyLocked(p) == 100 * p >= 99 * Scale

\* progress.current >= 0.99 && lockedState.current
UseCachedLock(p, lock) == NearlyLocked(p) /\ lock # NoLock

\* lockedState.current after the frame of one PhotoGroup.
FrameLock(p, lock, cam, y) ==
  IF AtRest(p) THEN NoLock
  ELSE IF UseCachedLock(p, lock) THEN lock
  ELSE IF NearlyLocked(p)
       THEN <<[pos |-> LockedPos(cam, y), quat |-> LockedQuat(cam, y), scale |-> LockedScale]>>
       ELSE lock

\* Transform written to the group in the frame of one PhotoGroup.
FramePose(idx, p, lock, ad, cam, y) ==
  IF AtRest(p)
  THEN [pos |-> Exact(TreePos(idx, ad)), quat |-> Exact(TreeQuat(idx)),
        scale |-> Exact(TreeScale(ad))]
  ELSE LET lockedPos == IF UseCachedLock(p, lock) THEN lock[1].pos ELSE LockedPos(cam, y)
           lockedQuat == IF UseCachedLock(p, lock) THEN lock[1].quat ELSE LockedQuat(cam, y)
       IN [pos |-> Blend(TreePos(idx, ad), lockedPos, p),
           quat |-> Blend(TreeQuat(idx), lockedQuat, p),
           scale |-> Blend(TreeScale(ad), LockedScale, p)]

\* ------------------------------------------------- gesture interpretation
RotationValue_deadZone(wristX) ==
  IF Abs(wristX - Scale \div 2) < Scale \div 20 THEN 0 ELSE (wristX - Scale \div 2) * 5

\* rotationValue = (wrist.x - 0.5) * 5
RotationValue(wristX) == (wristX - Scale \div 2) * 5

DispersionValue_noClamp(dist) == RoundDiv((dist - 150) * Scale, 350 - 150)

\* dispersionValue = min(max((dist - 0.15) / (0.35 - 0.15), 0), 1)
DispersionValue(dist) ==
  LET raw == RoundDiv((dist - 150) * Scale, 350 - 150)
      lower == IF raw > 0 THEN raw ELSE 0
  IN IF lower < Scale THEN lower ELSE Scale

\* The video and window sizes predictWebcam reads for the aspect ratio
\* correction: vw = video.videoWidth || 640, vh = video.videoHeight || 480,
\* window.innerWidth and window.innerHeight.
View(vw, vh, ww, wh) == [vw |-> vw, vh |-> vh, ww |-> ww, wh |-> wh]
DefaultView == View(640, 480, 1920, 1080)
Views == {DefaultView, View(640, 480, 600, 900), View(640, 480, 640, 480)}

\* 'Cover' mode: <<scaleX, scaleY>>, both 1 except scaleY = windowRatio /
\* videoRatio when the window is wider and scaleX = videoRatio / windowRatio
\* otherwise.
CoverScale(view) ==
  IF view.ww * view.vh > view.vw * view.wh
  THEN <<Scale, RoundDiv(view.ww * view.vh * Scale, view.wh * view.vw)>>
  ELSE <<RoundDiv(view.vw * view.wh * Scale, view.vh * view.ww), Scale>>

CursorNDC_aspectCorrected(tipX, tipY, scale) ==
  <<RoundDiv((tipX * 2 - Scale) * scale[1], Scale),
    -RoundDiv((tipY * 2 - Scale) * scale[2], Scale)>>

\* x = indexTip.x * 2 - 1, y = -(indexTip.y * 2 - 1); scaleX and scaleY
\* (scale) are computed before but not applied.
CursorNDC(tipX, tipY, scale) == <<tipX * 2 - Scale, -(tipY * 2 - Scale)>>

\* isPinching = pinchDist < 0.05
IsPinching(pinchDist) == pinchDist < 50

HandPayload_bare(wristX, dist, tipX, tipY, pinchDist, scale) ==
  [rotation |-> RotationValue(wristX),
   dispersion |-> DispersionValue(dist),
   isHandDetected |-> TRUE,
   cursor |-> Undefined,
   isPinching |-> Undefined]

\* onUpdate payload of a frame with a hand.
HandPayload(wristX, dist, tipX, tipY, pinchDist, scale) ==
  [rotation |-> RotationValue(wristX),
   dispersion |-> DispersionValue(dist),
   isHandDetected |-> TRUE,
   cursor |-> <<CursorNDC(tipX, tipY, scale)>>,
   isPinching |-> <<IsPinching(pinchDist)>>]

\* onUpdate payload of a frame without a hand ("Hand lost").
HandLostPayload ==
  [rotation |-> 0, dispersion |-> 0, isHandDetected |-> FALSE,
   cursor |-> <<<<0, 0>>>>, isPinching |-> <<FALSE>>]

\* What predictWebcam reads off result.landmarks[0]: wrist.x, the
\* wrist-to-middle-tip distance, the index tip and the thumb-to-index
\* distance (all in 1/1000).
Hand(wristX, dist, tipX, tipY, pinchDist) ==
  [wristX |-> wristX, dist |-> dist, tipX |-> tipX, tipY |-> tipY, pinchDist |-> pinchDist,
   view |-> DefaultView]

\* The same hand seen with other video and window sizes.
WithView(h, view) == [h EXCEPT !.view = view]

\* The onUpdate payload predictWebcam computes from a hand.
Interpret(h) ==
  HandPayload(h.wristX, h.dist, h.tipX, h.tipY, h.pinchDist, CoverScale(h.view))

\* Hand measurements the detector can report.
WristXs == {700}
Dists == {150, 210, 250, 350}
PinchDists == {40, 60}
Hands == {Hand(wx, d, 700, 300, pd) : wx \in WristXs, d \in Dists, pd \in PinchDists}
HandPayloads == {Interpret(h) : h \in Hands}

\* The two hands the controller specification feeds the loop: an open
\* pinching hand and a fist.
LoopHands == {Hand(700, 350, 700, 300, 40), Hand(700, 150, 700, 300, 60)}
LoopHandPayloads == {Interpret(h) : h \in LoopHands}

\* Hands of every wrist-to-middle-tip distance from 0 to 0.5.
DistRange == 0 .. (Scale \div 2)
DistHands == {Hand(700, d, 700, 300, 40) : d \in DistRange}

\* Hands with the wrist at every x from 0 to 1 in steps of 0.01.
WristRange == {10 * k : k \in 0 .. (Scale \div 10)}
WristHands == {Hand(wx, 250, 700, 300, 40) : wx \in WristRange}

\* Hands with the index tip at every point of [0, 1]^2 in steps of 0.1,
\* under every view.
TipRange == {100 * k : k \in 0 .. (Scale \div 100)}
TipHands ==
  {WithView(Hand(700, 250, tx, ty, 40), v) : tx \in TipRange, ty \in TipRange, v \in Views}

WideHands == DistHands \cup WristHands \cup TipHands

MergeGesture_replace(ref, data) ==
  [rotation |-> data.rotation,
   dispersion |-> data.dispersion,
   isHandDetected |-> data.isHandDetected,
   cursor |-> data.cursor,
   isPinching |-> data.isPinching,
   focusedId |-> NullId]

MergeGesture_keepCursor(ref, data) ==
  [rotation |-> data.rotation,
   dispersion |-> data.dispersion,
   isHandDetected |-> data.isHandDetected,
   cursor |-> IF data.isHandDetected THEN data.cursor ELSE ref.cursor,
   isPinching |-> data.isPinching,
   focusedId |-> ref.focusedId]

\* gestureRef.current = { ...gestureRef.current, ...data }
MergeGesture(ref, data) ==
  [rotation |-> data.rotation,
   dispersion |-> data.dispersion,
   isHandDetected |-> data.isHandDetected,
   cursor |-> data.cursor,
   isPinching |-> data.isPinching,
   focusedId |-> ref.focusedId]

\* ------------------------------------------------------------ Scene frame
SceneSpeed_focusOnly(mode, ref) ==
  LET base == IF mode = GESTURE THEN ref.rotation * 1000 ELSE 100000
  IN IF ref.focusedId # NullId
     THEN base \div 20
     ELSE IF mode = GESTURE /\ ref.dispersion > Scale \div 2 THEN base \div 10 ELSE base

\* Rotation speed in 1e-6 rad/s (rotation is in 1e-3).
SceneSpeed(mode, ref) ==
  LET base == IF mode = GESTURE
              THEN IF ref.dispersion > Scale \div 2
                   THEN (ref.rotation * 1000) \div 10
                   ELSE ref.rotation * 1000
              ELSE 100000
  IN IF ref.focusedId # NullId THEN base \div 20 ELSE base

\* groupRef.current.rotation.y += speed * delta
NextYaw(y, mode, ref, deltaMs) == (y + SceneSpeed(mode, ref) * deltaMs) % YawWrap

\* isPinching && dispersion > 0.3
PinchHeld(ref) == Truthy(ref.isPinching) /\ ref.dispersion * 10 > 3 * Scale

\* !isPinching || dispersion <= 0.3
ReleaseFocus(ref) == ~Truthy(ref.isPinching) \/ ref.dispersion * 10 <= 3 * Scale

PickAllowed_always(ref) == PinchHeld(ref)

\* isPinching && dispersion > 0.3 && !gestureRef.current.focusedId
PickAllowed(ref) == PinchHeld(ref) /\ ref.focusedId = NullId

\* interactionMode === GESTURE && gestureRef.current.isHandDetected
SelectionActive(mode, ref) == mode = GESTURE /\ ref.isHandDetected

SelectFocus_pastEnd(mode, ref, ph, r) ==
  IF SelectionActive(mode, ref)
  THEN IF PickAllowed(ref) THEN PhotoId(r + 2)
       ELSE IF ReleaseFocus(ref) THEN NullId
       ELSE ref.focusedId
  ELSE ref.focusedId

\* focusedId after the photo selection step; r is
\* Math.floor(Math.random() * photos.length).
SelectFocus(mode, ref, ph, r) ==
  IF SelectionActive(mode, ref)
  THEN IF PickAllowed(ref) THEN ph[r + 1].id
       ELSE IF ReleaseFocus(ref) THEN NullId
       ELSE ref.focusedId
  ELSE ref.focusedId

\* ------------------------------------------------- GestureController
\* The <video> element of one run of the loop effect.
VideoEmpty == [readyState |-> 0, videoWidth |-> 0, videoHeight |-> 0]
VideoStates ==
  {VideoEmpty,
   [readyState |-> 1, videoWidth |-> 640, videoHeight |-> 480],
   [readyState |-> 2, videoWidth |-> 0, videoHeight |-> 0],
   [readyState |-> 4, videoWidth |-> 640, videoHeight |-> 480]}

\* video.readyState < 2 || video.videoWidth < 1 || video.videoHeight < 1
VideoDegenerate(v) == v.readyState < 2 \/ v.videoWidth < 1 \/ v.videoHeight < 1

LoopGuard_ignoresLoaded(enabled, loaded) == enabled

\* The loop effect passes its guard: !(!enabled || !isLoaded || !videoRef.current).
\* The video element is rendered whenever enabled is true.
LoopGuard(enabled, loaded) == enabled /\ loaded

\* A run of the loop effect that has not happened.
NoLoop ==
  [state |-> "none", isRunning |-> FALSE, gum |-> "none", srcObject |-> FALSE,
   live |-> FALSE, raf |-> FALSE, video |-> VideoEmpty, fresh |-> FALSE,
   seenHand |-> FALSE]

\* Body of the loop effect once its guard passed: lastVideoTime = -1,
\* isRunning = true, startCamera() up to the await of getUserMedia.  seenHand
\* is the isHandDetected value closed over by the onUpdate the run keeps.
StartedLoop(seen) ==
  [state |-> "running", isRunning |-> TRUE, gum |-> "pending", srcObject |-> FALSE,
   live |-> FALSE, raf |-> FALSE, video |-> VideoEmpty, fresh |-> TRUE,
   seenHand |-> seen]

StopFlag_kept(l) == l

\* isRunning = false
StopFlag(l) == [l EXCEPT !.isRunning = FALSE]

\* Cleanup of run e: clear the flag, cancel the request requestRef holds,
\* stop the tracks of video.srcObject.
CleanedLoops(lp, e, req) ==
  LET stopped == [lp EXCEPT ![e] = [StopFlag(lp[e]) EXCEPT
                     !.state = "cleaned",
                     !.live = IF lp[e].srcObject THEN FALSE ELSE lp[e].live]]
  IN IF req # 0 THEN [stopped EXCEPT ![req].raf = FALSE] ELSE stopped

TickKind_noDimensionGuard(l, landmarker, canvas, outcome) ==
  IF ~l.isRunning THEN "stopped"
  ELSE IF ~landmarker \/ ~canvas THEN "notready"
  ELSE IF ~l.fresh THEN "stale"
  ELSE outcome

\* The outcome of one predictWebcam invocation of run e, decided by the
\* checks in source order; outcome is what the detector does when called.
TickKind(l, landmarker, canvas, outcome) ==
  IF ~l.isRunning THEN "stopped"
  ELSE IF ~landmarker \/ ~canvas THEN "notready"
  ELSE IF VideoDegenerate(l.video) THEN "degenerate"
  ELSE IF ~l.fresh THEN "stale"
  ELSE outcome

DetectorOutcomes == {"threw", "hand", "lost"}

\* detectForVideo is called.
CallsDetector(kind) == kind \in DetectorOutcomes

CallsOnUpdate_onError(kind) == kind \in {"hand", "lost", "threw"}

\* onUpdate is called.
CallsOnUpdate(kind) == kind \in {"hand", "lost"}

\* requestAnimationFrame(predictWebcam) is called.
Reschedules(kind, l) == kind # "stopped" /\ l.isRunning

\* The payload handed to onUpdate; hand is landmarks[0] of the result.
TickPayload(kind, hand) == IF kind = "hand" THEN Interpret(hand) ELSE HandLostPayload

\* The detector result carried no hand (the value of hand is not read).
NoHand == Hand(0, 0, 0, 0, 0)

\* --------------------------------------------------------------- actions
OriginPose ==
  [pos |-> Exact([kind |-> "origin", of |-> 0, at |-> 0]),
   quat |-> Exact([kind |-> "origin", of |-> 0, at |-> 0]),
   scale |-> Exact([kind |-> "scale", of |-> 0, at |-> Scale])]

NoTick ==
  [kind |-> "none", cleaned |-> FALSE, detect |-> FALSE, update |-> FALSE,
   scheduled |-> FALSE, kept |-> TRUE, video |-> VideoEmpty, landmarker |-> FALSE,
   loaded |-> FALSE]

Init ==
  /\ interactionMode = MOUSE
  /\ photos = <<>>
  /\ gestureRef = [rotation |-> 0, dispersion |-> 0, isHandDetected |-> FALSE,
                   cursor |-> Undefined, isPinching |-> Undefined,
                   focusedId |-> NullId]
  /\ progress = [i \in PhotoIdx |-> 0]
  /\ lockedState = [i \in PhotoIdx |-> NoLock]
  /\ pose = [i \in PhotoIdx |-> OriginPose]
  /\ yaw = 0
  /\ prevPinch = FALSE
  /\ yawStep = 0
  /\ uDispersion = 0
  /\ isHandDetectedState = FALSE
  /\ isLoaded = FALSE
  /\ handLandmarker = FALSE
  /\ initsPending = 0
  /\ initFailed = FALSE
  /\ landmarkers = 0
  /\ epoch = 0
  /\ loop = [e \in 1 .. MaxEpochs |-> NoLoop]
  /\ requestRef = 0
  /\ lastTick = NoTick
  /\ processed = <<"-", "-">>
  /\ lastHand = <<>>

\* Mount effect of App: setPhotos(initialPhotos).
InitPhotos ==
  /\ photos = <<>>
  /\ photos' = InitialPhotos
  /\ UNCHANGED <<lastHand, interactionMode, gestureRef, isHandDetectedState, frameVars, ctlVars>>

\* handleGestureUpdate(data) as held by a loop whose closure saw
\* isHandDetected = seen.
HandleGestureUpdate(data, seen) ==
  /\ gestureRef' = MergeGesture(gestureRef, data)
  /\ isHandDetectedState' =
       IF data.isHandDetected # seen THEN data.isHandDetected ELSE isHandDetectedState

ToggleFocus_clearsOther(focusedId, id) == IF focusedId = NullId THEN id ELSE NullId

\* Toggle Focus: null when the clicked photo is the focused one, else its id.
ToggleFocus(focusedId, id) == IF focusedId = id THEN NullId ELSE id

\* onClick of the PhotoGroup of photo idx.
PhotoClick(idx) ==
  /\ idx \in 1 .. Len(photos)
  /\ gestureRef' =
       IF interactionMode = MOUSE
       THEN [gestureRef EXCEPT !.focusedId = ToggleFocus(gestureRef.focusedId, photos[idx].id)]
       ELSE gestureRef
  /\ UNCHANGED <<lastHand, interactionMode, photos, isHandDetectedState, frameVars, ctlVars>>

\* onPointerMissed of the Canvas.
PointerMissed ==
  /\ gestureRef' = [gestureRef EXCEPT !.focusedId = NullId]
  /\ UNCHANGED <<lastHand, interactionMode, photos, isHandDetectedState, frameVars, ctlVars>>

\* One render tick: the useFrame callback of every PhotoGroup, then the
\* useFrame callback of Scene (children subscribe before their parent).
RenderTick(deltaMs, cam, r) ==
  /\ r \in IF SelectionActive(interactionMode, gestureRef) /\ PickAllowed(gestureRef)
            THEN 0 .. (Len(photos) - 1)
            ELSE {0}
  /\ LET ad == ActiveDispersion(interactionMode, gestureRef.dispersion)
         np == [i \in PhotoIdx |->
                  IF i \in 1 .. Len(photos)
                  THEN NextProgress(progress[i], gestureRef.focusedId, photos[i].id, deltaMs)
                  ELSE progress[i]]
     IN /\ progress' = np
        /\ lockedState' = [i \in PhotoIdx |->
             IF i \in 1 .. Len(photos)
             THEN FrameLock(np[i], lockedState[i], cam, yaw)
             ELSE lockedState[i]]
        /\ pose' = [i \in PhotoIdx |->
             IF i \in 1 .. Len(photos)
             THEN FramePose(i, np[i], lockedState[i], ad, cam, yaw)
             ELSE pose[i]]
  /\ yaw' = NextYaw(yaw, interactionMode, gestureRef, deltaMs)
  /\ prevPinch' = Truthy(gestureRef.isPinching)
  /\ yawStep' = SceneSpeed(interactionMode, gestureRef) * deltaMs
  /\ gestureRef' = [gestureRef EXCEPT !.focusedId =
                      SelectFocus(interactionMode, gestureRef, photos, r)]
  /\ UNCHANGED <<lastHand, interactionMode, photos, isHandDetectedState, uDispersion, ctlVars>>

\* targetDispersion of the particles.
TargetDispersion(mode, ref) == IF mode = GESTURE THEN ref.dispersion ELSE 0

\* uDispersion.value after THREE.MathUtils.lerp(value, targetDispersion, 0.1).
LerpDispersion(u, target) == Lerp(u, target, 1, 10)

\* The useFrame callback of ChristmasTreeParticles.
ParticlesFrame ==
  /\ uDispersion' = LerpDispersion(uDispersion, TargetDispersion(interactionMode, gestureRef))
  /\ UNCHANGED <<lastHand, interactionMode, photos, gestureRef, isHandDetectedState, progress,
                 lockedState, pose, yaw, prevPinch, yawStep, ctlVars>>

\* setInteractionMode(m) from the mode buttons, with the effects of the
\* re-render it causes in GestureController (enabled = (m = GESTURE)): the
\* init effect, and the cleanup and body of the loop effect.  The buttons
\* are clickable only after the first commit, whose passive effects
\* (InitPhotos) React flushes before it handles the click.
SetInteractionMode(m) ==
  /\ photos # <<>>
  /\ m # interactionMode
  /\ interactionMode' = m
  /\ IF m = GESTURE
     THEN /\ epoch < MaxEpochs
          /\ epoch' = epoch + 1
          /\ initsPending' = IF ~handLandmarker THEN initsPending + 1 ELSE initsPending
          /\ loop' = IF LoopGuard(TRUE, isLoaded)
                     THEN [loop EXCEPT ![epoch + 1] = StartedLoop(isHandDetectedState)]
                     ELSE loop
          /\ UNCHANGED requestRef
     ELSE /\ IF epoch > 0 /\ loop[epoch].state = "running"
             THEN /\ loop' = CleanedLoops(loop, epoch, requestRef)
                  /\ requestRef' = 0
             ELSE UNCHANGED <<loop, requestRef>>
          /\ UNCHANGED <<epoch, initsPending>>
  /\ UNCHANGED <<lastHand, photos, gestureRef, isHandDetectedState, frameVars, isLoaded,
                 handLandmarker, initFailed, landmarkers, lastTick, processed>>

\* init() completes: handLandmarkerRef.current is set and setIsLoaded(true)
\* is called, which schedules the render that CommitLoaded performs.
InitResolve ==
  /\ initsPending > 0
  /\ initsPending' = initsPending - 1
  /\ handLandmarker' = TRUE
  /\ landmarkers' = landmarkers + 1
  /\ UNCHANGED <<lastHand, interactionMode, photos, gestureRef, isHandDetectedState, frameVars,
                 isLoaded, initFailed, epoch, loop, requestRef, lastTick, processed>>

\* The render scheduled by setIsLoaded(true) commits: isLoaded is true and
\* the loop effect, whose dependency changed, runs.  Its previous run
\* returned at the guard (isLoaded was false), so there is nothing to clean.
CommitLoaded ==
  /\ handLandmarker /\ ~isLoaded
  /\ isLoaded' = TRUE
  /\ loop' = IF LoopGuard(interactionMode = GESTURE, TRUE) /\ loop[epoch].state = "none"
             THEN [loop EXCEPT ![epoch] = StartedLoop(isHandDetectedState)]
             ELSE loop
  /\ UNCHANGED <<lastHand, interactionMode, photos, gestureRef, isHandDetectedState, frameVars,
                 handLandmarker, initsPending, initFailed, landmarkers, epoch, requestRef,
                 lastTick, processed>>

\* init() fails: the catch block logs and nothing is set.
InitFail ==
  /\ initsPending > 0
  /\ initsPending' = initsPending - 1
  /\ initFailed' = TRUE
  /\ UNCHANGED <<lastHand, interactionMode, photos, gestureRef, isHandDetectedState, frameVars,
                 isLoaded, handLandmarker, landmarkers, epoch, loop, requestRef,
                 lastTick, processed>>

\* One invocation of predictWebcam by run e, whose record is l when the
\* invocation starts.
PredictWebcam(e, l, outcome, hand) ==
  LET kind == TickKind(l, handLandmarker, interactionMode = GESTURE, outcome)
      data == TickPayload(kind, hand)
      newRef == IF CallsOnUpdate(kind) THEN MergeGesture(gestureRef, data) ELSE gestureRef
  IN /\ IF CallsOnUpdate(kind)
        THEN HandleGestureUpdate(data, l.seenHand)
        ELSE UNCHANGED <<gestureRef, isHandDetectedState>>
     /\ loop' = [loop EXCEPT ![e] =
                   [l EXCEPT !.fresh = IF CallsDetector(kind) THEN FALSE ELSE l.fresh,
                             !.raf = Reschedules(kind, l)]]
     /\ requestRef' = IF Reschedules(kind, l) THEN e ELSE requestRef
     /\ lastTick' = [kind |-> kind, cleaned |-> l.state = "cleaned",
                     detect |-> CallsDetector(kind), update |-> CallsOnUpdate(kind),
                     scheduled |-> Reschedules(kind, l), kept |-> newRef = gestureRef,
                     video |-> l.video, landmarker |-> handLandmarker,
                     loaded |-> isLoaded]
     /\ processed' = IF kind \in {"hand", "lost"}
                     THEN <<processed[2], kind>>
                     ELSE processed
     /\ lastHand' = IF kind = "hand" THEN <<hand>>
                    ELSE IF kind = "lost" THEN <<>>
                    ELSE lastHand
     /\ UNCHANGED <<interactionMode, photos, frameVars, isLoaded, handLandmarker,
                    initsPending, initFailed, landmarkers, epoch>>

\* The inputs of an invocation that can matter given the state of run e.
TickInputs(l) ==
  LET canDetect == TickKind(l, handLandmarker, interactionMode = GESTURE, "hand") = "hand"
  IN IF canDetect
     THEN {<<"threw", NoHand>>, <<"lost", NoHand>>}
            \cup {<<"hand", h>> : h \in LoopHands}
     ELSE {<<"lost", NoHand>>}

\* getUserMedia resolves for run e: video.srcObject = stream, then
\* predictWebcam().
GumResolve(e, outcome, hand) ==
  /\ loop[e].gum = "pending"
  /\ <<outcome, hand>> \in TickInputs(loop[e])
  /\ PredictWebcam(e, [loop[e] EXCEPT !.gum = "resolved", !.srcObject = TRUE,
                                      !.live = TRUE], outcome, hand)

\* getUserMedia rejects for run e: the catch block logs.
GumReject(e) ==
  /\ loop[e].gum = "pending"
  /\ loop' = [loop EXCEPT ![e].gum = "rejected"]
  /\ UNCHANGED <<lastHand, interactionMode, photos, gestureRef, isHandDetectedState, frameVars,
                 isLoaded, handLandmarker, initsPending, initFailed, landmarkers, epoch,
                 requestRef, lastTick, processed>>

\* The animation frame requested by run e fires: predictWebcam().
AnimationFrame(e, outcome, hand) ==
  /\ loop[e].raf
  /\ <<outcome, hand>> \in TickInputs(loop[e])
  /\ PredictWebcam(e, [loop[e] EXCEPT !.raf = FALSE], outcome, hand)

\* The video element of run e, fed by a live stream, changes its ready
\* state and dimensions.
VideoLoad(e, v) ==
  /\ loop[e].srcObject /\ loop[e].live
  /\ v # loop[e].video
  /\ loop' = [loop EXCEPT ![e].video = v]
  /\ UNCHANGED <<lastHand, interactionMode, photos, gestureRef, isHandDetectedState, frameVars,
                 isLoaded, handLandmarker, initsPending, initFailed, landmarkers, epoch,
                 requestRef, lastTick, processed>>

\* The video element of run e shows a new frame: video.currentTime moves
\* away from lastVideoTime.
VideoFrame(e) ==
  /\ loop[e].srcObject /\ loop[e].live
  /\ ~loop[e].fresh
  /\ loop' = [loop EXCEPT ![e].fresh = TRUE]
  /\ UNCHANGED <<lastHand, interactionMode, photos, gestureRef, isHandDetectedState, frameVars,
                 isLoaded, handLandmarker, initsPending, initFailed, landmarkers, epoch,
                 requestRef, lastTick, processed>>

\* Mode switch with the controller left out (its loop is stood for by
\* OnUpdate below).
SwitchMode(m) ==
  /\ photos # <<>>
  /\ m # interactionMode
  /\ interactionMode' = m
  /\ UNCHANGED <<lastHand, photos, gestureRef, isHandDetectedState, frameVars, ctlVars>>

\* A running prediction loop, which exists only while the controller is
\* enabled (GESTURE mode), processes a video frame showing hand h.
HandFrame(h, seen) ==
  /\ interactionMode = GESTURE
  /\ HandleGestureUpdate(Interpret(h), seen)
  /\ lastHand' = <<h>>
  /\ UNCHANGED <<interactionMode, photos, frameVars, ctlVars>>

\* A running prediction loop processes a video frame showing no hand.
LostFrame(seen) ==
  /\ interactionMode = GESTURE
  /\ HandleGestureUpdate(HandLostPayload, seen)
  /\ lastHand' = <<>>
  /\ UNCHANGED <<interactionMode, photos, frameVars, ctlVars>>

\* onUpdate(data) delivered by a running prediction loop.
OnUpdate(data, seen) ==
  \/ data = HandLostPayload /\ LostFrame(seen)
  \/ \E h \in Hands : data = Interpret(h) /\ HandFrame(h, seen)

\* ------------------------------------------------------- specifications
Runs == 1 .. MaxEpochs

\* The gesture controller: mode switches, landmarker initialisation, camera
\* start, the prediction loop and the video element.
Next ==
  \/ InitPhotos
  \/ \E m \in {MOUSE, GESTURE} : SetInteractionMode(m)
  \/ InitResolve
  \/ CommitLoaded
  \/ InitFail
  \/ \E e \in Runs, o \in DetectorOutcomes, h \in LoopHands \cup {NoHand} :
       GumResolve(e, o, h)
  \/ \E e \in Runs : GumReject(e)
  \/ \E e \in Runs, o \in DetectorOutcomes, h \in LoopHands \cup {NoHand} :
       AnimationFrame(e, o, h)
  \/ \E e \in Runs, v \in VideoStates : VideoLoad(e, v)
  \/ \E e \in Runs : VideoFrame(e)

Spec == Init /\ [][Next]_vars

\* Selection: both modes, every gesture payload, frames of 100 ms.
NextSelect ==
  \/ InitPhotos
  \/ \E m \in {MOUSE, GESTURE} : SwitchMode(m)
  \/ \E data \in HandPayloads \cup {HandLostPayload}, seen \in BOOLEAN : OnUpdate(data, seen)
  \/ \E idx \in PhotoIdx : PhotoClick(idx)
  \/ PointerMissed
  \/ \E d \in UnitDeltas, cam \in CamAzimuths, r \in 0 .. (NumPhotos - 1) : RenderTick(d, cam, r)

SpecSelect == Init /\ [][NextSelect]_vars

\* Focus transition: mouse mode, frames of 90 ms and 110 ms.
NextFocus ==
  \/ InitPhotos
  \/ \E idx \in PhotoIdx : PhotoClick(idx)
  \/ PointerMissed
  \/ \E d \in SlowDeltas, cam \in CamAzimuths, r \in 0 .. (NumPhotos - 1) : RenderTick(d, cam, r)

SpecFocus == Init /\ [][NextFocus]_vars

\* progress.current after a frame of half a millisecond (factor 1/200).
ShortFrame(p, target) == SnapProgress(Lerp(p, target, 1, 200), target)

FocusIds == {NullId} \cup {PhotoId(i) : i \in PhotoIdx}

\* The lock a photo holds once it has been fully focused with the camera
\* and the scene both at azimuth 0.
SettledLock(f, id) == FrameLock(TargetProgress(f, id), NoLock, 0, 0)

\* The smoother's inputs.  The scene has settled with f0 focused (every
\* progress at its target); a click makes f1 the focus, a frame of half a
\* millisecond follows, and further clicks leave f2 focused.
InitSmooth ==
  \E f0 \in FocusIds, f1 \in FocusIds, f2 \in FocusIds :
    LET p0 == [i \in PhotoIdx |->
                 ShortFrame(TargetProgress(f0, PhotoId(i)), TargetProgress(f1, PhotoId(i)))]
    IN /\ interactionMode = MOUSE
       /\ photos = InitialPhotos
       /\ gestureRef = [rotation |-> 0, dispersion |-> 0, isHandDetected |-> FALSE,
                        cursor |-> Undefined, isPinching |-> Undefined,
                        focusedId |-> f2]
       /\ progress = p0
       /\ lockedState = [i \in PhotoIdx |-> FrameLock(p0[i], SettledLock(f0, PhotoId(i)), 0, 0)]
       /\ pose = [i \in PhotoIdx |-> FramePose(i, p0[i], SettledLock(f0, PhotoId(i)), 0, 0, 0)]
       /\ yaw = 0
       /\ prevPinch = FALSE
       /\ yawStep = 0
       /\ uDispersion = 0
       /\ isHandDetectedState = FALSE
       /\ isLoaded = FALSE
       /\ handLandmarker = FALSE
       /\ initsPending = 0
       /\ initFailed = FALSE
       /\ landmarkers = 0
       /\ epoch = 0
       /\ loop = [e \in 1 .. MaxEpochs |-> NoLoop]
       /\ requestRef = 0
       /\ lastTick = NoTick
       /\ processed = <<"-", "-">>
       /\ lastHand = <<>>

\* Every photo's progress is within 0.01 of its target.
NearTargets ==
  \A i \in 1 .. Len(photos) :
    Abs(progress[i] - TargetProgress(gestureRef.focusedId, photos[i].id)) < Scale \div 100

\* A render tick of the smoother specification: frames of 100 ms at any
\* time, a stalled frame when every progress is near its target.
SmoothFrame ==
  \/ \E d \in UnitDeltas, cam \in CamAzimuths : RenderTick(d, cam, 0)
  \/ \E d \in StallDeltas, cam \in CamAzimuths : NearTargets /\ RenderTick(d, cam, 0)

\* The smoother: mouse mode, clicks, frames of 100 ms and stalled frames.
NextSmooth ==
  \/ \E idx \in PhotoIdx : PhotoClick(idx)
  \/ PointerMissed
  \/ SmoothFrame

SpecSmooth == InitSmooth /\ [][NextSmooth]_vars

\* Every progress value is within MaxDrift of [0, 1].
DriftBounded ==
  \A i \in PhotoIdx : progress[i] >= -MaxDrift /\ progress[i] <= Scale + MaxDrift

\* A render tick of the convergence specification: frames of 100 ms at any
\* time, frames of 200 ms while the drift is bounded.
ConvergeFrame ==
  \/ \E d \in UnitDeltas, cam \in CamAzimuths : RenderTick(d, cam, 0)
  \/ \E d \in LongDeltas, cam \in CamAzimuths : DriftBounded /\ RenderTick(d, cam, 0)

\* Convergence of the focus transition in mouse mode.  The render loop
\* (frameloop "always") runs the useFrame callbacks on every animation
\* frame, so a frame always eventually happens.
NextConverge ==
  \/ InitPhotos
  \/ \E idx \in PhotoIdx : PhotoClick(idx)
  \/ PointerMissed
  \/ ConvergeFrame

SpecConverge == Init /\ [][NextConverge]_vars /\ WF_vars(ConvergeFrame)

\* The particles: mode switches, gesture updates and the frames of
\* ChristmasTreeParticles.
NextParticles ==
  \/ InitPhotos
  \/ \E m \in {MOUSE, GESTURE} : SwitchMode(m)
  \/ \E data \in HandPayloads \cup {HandLostPayload}, seen \in BOOLEAN : OnUpdate(data, seen)
  \/ ParticlesFrame

SpecParticles == Init /\ [][NextParticles]_vars

\* Hands to the left of, at and to the right of the centre, half open and
\* fully open, pinching and not.
RotateHands ==
  {Hand(wx, d, 700, 300, pd) : wx \in {300, 500, 760}, d \in {250, 350}, pd \in PinchDists}

\* The camera stays at azimuth 0 in the rotation specification.
RotateCam == 0

\* A render tick of the rotation specification: frames of 100 ms at any
\* time, frames of 200 ms while the drift is bounded.
RotateFrame ==
  \/ \E d \in UnitDeltas, r \in 0 .. (NumPhotos - 1) : RenderTick(d, RotateCam, r)
  \/ \E d \in LongDeltas, r \in 0 .. (NumPhotos - 1) :
       DriftBounded /\ RenderTick(d, RotateCam, r)

\* Scene rotation: both modes, hands on either side of the centre, frames
\* of 100 ms and 200 ms.
NextRotate ==
  \/ InitPhotos
  \/ \E m \in {MOUSE, GESTURE} : SwitchMode(m)
  \/ \E h \in RotateHands, seen \in BOOLEAN : HandFrame(h, seen)
  \/ \E seen \in BOOLEAN : LostFrame(seen)
  \/ RotateFrame

SpecRotate == Init /\ [][NextRotate]_vars

\* An open pinching hand left of the centre and a half open hand right of
\* it.
MouseHands == {Hand(300, 350, 700, 300, 40), Hand(760, 250, 200, 800, 60)}

\* A frame of the particles while the mode is MOUSE, or the first one after
\* uDispersion has been 0.
MouseParticlesFrame == (interactionMode = MOUSE \/ uDispersion = 0) /\ ParticlesFrame

\* Mouse mode with a gesture signal left in gestureRef: mode switches,
\* gesture updates, clicks, render ticks of 100 ms with the camera at
\* azimuth 0, and particle frames.
NextMouse ==
  \/ InitPhotos
  \/ \E m \in {MOUSE, GESTURE} : SwitchMode(m)
  \/ \E h \in MouseHands, seen \in BOOLEAN : HandFrame(h, seen)
  \/ \E seen \in BOOLEAN : LostFrame(seen)
  \/ \E idx \in PhotoIdx : PhotoClick(idx)
  \/ \E d \in UnitDeltas, r \in 0 .. (NumPhotos - 1) : RenderTick(d, RotateCam, r)
  \/ MouseParticlesFrame

SpecMouse == Init /\ [][NextMouse]_vars

\* The gesture interpreter: hands of every distance, and frames without a
\* hand, processed in gesture mode.
NextInterpret ==
  \/ InitPhotos
  \/ \E m \in {MOUSE, GESTURE} : SwitchMode(m)
  \/ \E h \in WideHands, seen \in BOOLEAN : HandFrame(h, seen)
  \/ \E seen \in BOOLEAN : LostFrame(seen)

SpecInterpret == Init /\ [][NextInterpret]_vars

\* ================================================================ claims
\* A step that is one render tick.
RenderStep ==
  \E d \in SlowDeltas \cup UnitDeltas, cam \in CamAzimuths, r \in 0 .. (NumPhotos - 1) :
    RenderTick(d, cam, r)

FocusedIdx == {i \in 1 .. Len(photos) : photos[i].id = gestureRef.focusedId}
LoadedIds == {photos[i].id : i \in 1 .. Len(photos)}

\* C1: in GESTURE mode with the hand detected, isPinching true and
\* dispersion > 0.3, a render tick assigns focusedId a photo id when no
\* photo is focused and leaves focusedId as it is when one is focused, so a
\* pinch held over consecutive frames selects once and keeps that photo.
C1_PickOnce ==
  [][(RenderStep /\ interactionMode = GESTURE /\ gestureRef.isHandDetected
        /\ PinchHeld(gestureRef))
       => IF gestureRef.focusedId = NullId
          THEN gestureRef'.focusedId \in LoadedIds
          ELSE gestureRef'.focusedId = gestureRef.focusedId]_vars

\* C1 witness: the pinch is held, a photo was picked and a later frame has
\* already moved that photo to full progress.
C1_Witness ==
  /\ interactionMode = GESTURE /\ gestureRef.isHandDetected /\ PinchHeld(gestureRef)
  /\ gestureRef.focusedId # NullId
  /\ \E i \in FocusedIdx : progress[i] = Scale /\ lockedState[i] # NoLock

\* C2 (as claimed): in GESTURE mode a render tick that finds a photo focused
\* while isPinching is false or dispersion <= 0.3 leaves focusedId null.
C2_ReleasedNextTick ==
  [][(RenderStep /\ interactionMode = GESTURE /\ gestureRef.focusedId # NullId
        /\ gestureRef.isPinching # Undefined /\ ReleaseFocus(gestureRef))
       => gestureRef'.focusedId = NullId]_vars

\* C3 (as claimed): on a frame that finds photo A focused, A's progress does
\* not decrease, no other photo's progress increases, and at most one
\* photo's progress increases.
C3_Monotone ==
  [][(RenderStep /\ gestureRef.focusedId # NullId)
       => /\ \A i \in 1 .. Len(photos) :
               IF photos[i].id = gestureRef.focusedId
               THEN progress'[i] >= progress[i]
               ELSE progress'[i] <= progress[i]
          /\ Cardinality({i \in 1 .. Len(photos) : progress'[i] > progress[i]}) <= 1]_vars

\* C4 (as claimed): once the focused photo's progress is >= 0.99, the next
\* frame writes the same position, rotation and scale as the last one.
C4_LockedPoseStable ==
  [][(RenderStep /\ gestureRef.focusedId # NullId)
       => \A i \in FocusedIdx : NearlyLocked(progress[i]) => pose'[i] = pose[i]]_vars

\* C5: when a processed frame with a hand is followed by a processed frame
\* without one, the shared record goes from isHandDetected = true to
\* isHandDetected = false with rotation 0, dispersion 0, isPinching false
\* and cursor (0, 0).
C5_HandLostResets ==
  [][(processed[2] = "hand" /\ processed' = <<"hand", "lost">>)
       => /\ gestureRef.isHandDetected
          /\ ~gestureRef'.isHandDetected
          /\ gestureRef'.rotation = 0
          /\ gestureRef'.dispersion = 0
          /\ gestureRef'.isPinching = <<FALSE>>
          /\ gestureRef'.cursor = <<<<0, 0>>>>]_vars

\* C5 witness: the last two processed frames were a hand, then no hand.
C5_Witness ==
  /\ processed = <<"hand", "lost">>
  /\ lastTick.kind = "lost"
  /\ ~gestureRef.isHandDetected

\* C6: at most one photo has target progress 1.
C6_SingleFocus ==
  Cardinality({i \in 1 .. Len(photos) :
                 TargetProgress(gestureRef.focusedId, photos[i].id) = Scale}) <= 1

\* C6 witness: one photo is the target while another one is moving back.
C6_Witness ==
  /\ Cardinality(FocusedIdx) = 1
  /\ \E i \in 1 .. Len(photos) : i \notin FocusedIdx /\ lockedState[i] # NoLock

\* C7 (as claimed): every photo's progress is within [0, 1].
C7_ProgressRange == \A i \in PhotoIdx : progress[i] >= 0 /\ progress[i] <= Scale

\* C8: a predictWebcam invocation made after the cleanup of its effect run
\* calls neither the detector nor onUpdate and requests no animation frame.
C8_NoWorkAfterCleanup ==
  lastTick.cleaned => ~lastTick.detect /\ ~lastTick.update /\ ~lastTick.scheduled

\* C8 witness: predictWebcam was invoked for a run already cleaned up.
C8_Witness == lastTick.cleaned /\ lastTick.kind = "stopped"

\* C9 (as claimed): once the cleanup of a run and its getUserMedia
\* completion have both happened, its stream has no running track.
C9_NoStreamLeftRunning ==
  \A e \in 1 .. MaxEpochs :
    (loop[e].state = "cleaned" /\ loop[e].gum = "resolved") => ~loop[e].live

\* C10: a tick in which the detector throws, or whose video frame is
\* degenerate, does not call onUpdate, leaves the shared record as it was
\* and requests the next animation frame.
C10_FailedTickKeepsSignal ==
  lastTick.kind \in {"threw", "degenerate"}
    => ~lastTick.update /\ lastTick.kept /\ lastTick.scheduled

\* C10 witness: the detector threw while the record held a detected hand.
C10_Witness ==
  /\ lastTick.kind = "threw"
  /\ gestureRef.isHandDetected
  /\ \E e \in 1 .. MaxEpochs : loop[e].raf

\* C11: the detector is called only in a tick whose video has readyState
\* >= 2, videoWidth >= 1 and videoHeight >= 1; a tick of a running loop that
\* finds the video otherwise does not call the detector and requests the
\* one animation frame that retries.
C11_DetectOnlyValidFrame ==
  /\ lastTick.detect => ~VideoDegenerate(lastTick.video)
  /\ (lastTick.kind \notin {"none", "stopped"} /\ VideoDegenerate(lastTick.video))
       => /\ ~lastTick.detect
          /\ lastTick.scheduled

\* C11 witness: a tick met a ready video of zero area and asked for a retry.
C11_Witness ==
  /\ lastTick.kind = "degenerate"
  /\ lastTick.video.readyState >= 2 /\ lastTick.video.videoWidth < 1
  /\ lastTick.scheduled

\* C12: whenever the detector is called, handLandmarkerRef.current is set
\* and isLoaded is true; a tick that finds the landmarker (or the canvas)
\* missing calls nothing and requests the next animation frame.
C12_DetectOnlyWhenLoaded ==
  /\ lastTick.detect => lastTick.landmarker /\ lastTick.loaded
  /\ lastTick.kind = "notready" => ~lastTick.detect /\ ~lastTick.update /\ lastTick.scheduled
  /\ \A e \in 1 .. MaxEpochs : loop[e].state # "none" => handLandmarker /\ isLoaded

\* C12 witness: the detector was called by a loop that started when the
\* render following the end of init() committed.
C12_Witness ==
  /\ lastTick.detect /\ lastTick.loaded
  /\ initsPending = 0 /\ landmarkers = 1

\* C13 (as claimed): once an init() call has failed, isLoaded stays false,
\* the landmarker stays unset and no run of the loop effect starts the camera.
C13_FailedInitIsFinal ==
  initFailed => /\ ~isLoaded
                /\ ~handLandmarker
                /\ \A e \in 1 .. MaxEpochs : loop[e].state = "none"

\* A step that is one call of handleGestureUpdate.
GestureUpdateStep ==
  \E data \in HandPayloads \cup {HandLostPayload}, seen \in BOOLEAN : OnUpdate(data, seen)

\* C14: a call of handleGestureUpdate leaves gestureRef.current.focusedId as
\* it was, whatever render ticks and click handlers ran before it.
C14_UpdateKeepsFocus ==
  [][GestureUpdateStep => gestureRef'.focusedId = gestureRef.focusedId]_vars

\* C14 witness: a photo picked by a pinch is still focused after the
\* hand-lost update that followed.
C14_Witness ==
  /\ gestureRef.focusedId # NullId
  /\ ~gestureRef.isHandDetected
  /\ gestureRef.isPinching = <<FALSE>>
  /\ interactionMode = GESTURE

\* C15: in MOUSE mode a click on photo P leaves focusedId = P when it was
\* not P and null when it was P; a click that hits nothing leaves it null.
C15_ClickToggles ==
  [][/\ \A idx \in PhotoIdx :
          (PhotoClick(idx) /\ interactionMode = MOUSE)
            => /\ gestureRef.focusedId # photos[idx].id
                    => gestureRef'.focusedId = photos[idx].id
               /\ gestureRef.focusedId = photos[idx].id
                    => gestureRef'.focusedId = NullId
     /\ PointerMissed => gestureRef'.focusedId = NullId]_vars

\* C15 witness: with the mouse alone, photo 1 was focused and a click on
\* photo 2 then moved the focus to it.
C15_Witness ==
  /\ interactionMode = MOUSE
  /\ gestureRef.isPinching = Undefined
  /\ Len(photos) >= 2
  /\ gestureRef.focusedId = photos[2].id
  /\ progress[1] = Scale /\ progress[2] = 0

\* C16 (as claimed): a render tick gives focusedId a photo id in place of
\* null only when isPinching is true and was false at the previous render
\* tick, so a pinch that stays true selects at most once.
C16_PickOnRisingEdge ==
  [][(RenderStep /\ gestureRef.focusedId = NullId /\ gestureRef'.focusedId # NullId)
       => Truthy(gestureRef.isPinching) /\ ~prevPinch]_vars

\* C17 (as claimed): a frame that finds a photo's progress within 0.01 of
\* its target leaves it exactly at the target, whatever the frame delta.
C17_SnapIdempotent ==
  [][SmoothFrame
       => \A i \in 1 .. Len(photos) :
            Abs(progress[i] - TargetProgress(gestureRef.focusedId, photos[i].id)) < Scale \div 100
              => progress'[i] = TargetProgress(gestureRef.focusedId, photos[i].id)]_vars

\* C18 (as claimed): if focusedId stays the same from some frame on, then
\* from some later frame on every photo's progress equals its target.
C18_FocusConverges ==
  \A f \in FocusIds :
    <>[](photos # <<>> /\ gestureRef.focusedId = f)
      => <>[](\A i \in 1 .. Len(photos) : progress[i] = TargetProgress(f, photos[i].id))

\* C19 (as claimed): a frame that finds uDispersion within 0.01 of the
\* target dispersion leaves it exactly equal to the target.
C19_DispersionSnaps ==
  [][ParticlesFrame
       => (Abs(uDispersion - TargetDispersion(interactionMode, gestureRef)) < Scale \div 100
             => uDispersion' = TargetDispersion(interactionMode, gestureRef))]_vars

\* clamp(x, 0, 1)
Clamp01(x) == IF x < 0 THEN 0 ELSE IF x > Scale THEN Scale ELSE x

\* C20: the dispersion emitted for a hand of wrist-to-middle-tip distance d
\* is clamp((d - 0.15) / 0.2, 0, 1): 0 for d <= 0.15, 1 for d >= 0.35,
\* within [0, 1], and larger than for any smaller distance in [0.15, 0.35].
C20_DispersionClamped ==
  lastHand # <<>>
    => LET d == lastHand[1].dist
           v == gestureRef.dispersion
       IN /\ v = Clamp01(((d - 150) * Scale) \div 200)
          /\ v >= 0 /\ v <= Scale
          /\ d <= 150 => v = 0
          /\ d >= 350 => v = Scale
          /\ \A d2 \in DistRange :
               (150 <= d2 /\ d2 < d /\ d <= 350) => DispersionValue(d2) < v

\* C20 witness: a hand between fist and open hand was processed.
C20_Witness ==
  /\ lastHand # <<>>
  /\ lastHand[1].dist > 150 /\ lastHand[1].dist < 350
  /\ gestureRef.dispersion > 0 /\ gestureRef.dispersion < Scale

\* C21: the rotation emitted for a hand whose wrist is at x is (x - 0.5) * 5:
\* it differs from the rotation of any other wrist position by 5 times the
\* difference of the positions, and it is zero exactly when x = 0.5.
C21_RotationLinear ==
  lastHand # <<>>
    => LET x == lastHand[1].wristX
           v == gestureRef.rotation
       IN /\ v = 5 * (x - Scale \div 2)
          /\ (v = 0) <=> (x = Scale \div 2)
          /\ \A x2 \in WristRange : RotationValue(x2) - v = 5 * (x2 - x)

\* C21 witness: a hand with the wrist at the right edge was processed.
C21_Witness ==
  /\ lastHand # <<>>
  /\ lastHand[1].wristX = Scale
  /\ gestureRef.rotation = (5 * Scale) \div 2
  /\ gestureRef.isHandDetected

\* C22: the cursor emitted for a hand whose index tip is at (x, y) is
\* (2x - 1, -(2y - 1)); it lies in [-1, 1]^2 and is the same under every
\* video and window size.
C22_CursorNDC ==
  lastHand # <<>>
    => LET x == lastHand[1].tipX
           y == lastHand[1].tipY
           c == gestureRef.cursor
       IN /\ c = << <<2 * x - Scale, -(2 * y - Scale)>> >>
          /\ (x \in 0 .. Scale /\ y \in 0 .. Scale)
               => /\ c[1][1] >= -Scale /\ c[1][1] <= Scale
                  /\ c[1][2] >= -Scale /\ c[1][2] <= Scale
          /\ \A v \in Views : Interpret(WithView(lastHand[1], v)).cursor = c

\* C22 witness: a hand pointing at the top right corner was processed in a
\* window narrower than the video.
C22_Witness ==
  /\ lastHand # <<>>
  /\ lastHand[1].tipX = Scale /\ lastHand[1].tipY = 0
  /\ CoverScale(lastHand[1].view)[1] > Scale
  /\ gestureRef.cursor = << <<Scale, Scale>> >>

\* speed * delta for a frame of d ms when the speed is the gesture rotation
\* times 0.1 if dispersion > 0.5 and times 0.05 if a photo is focused
\* (rotation in 1e-3, the product in 1e-9 rad).
DampedAdvance(ref, d) ==
  LET dispersed == ref.dispersion * 2 > Scale
      focused == ref.focusedId # NullId
  IN IF dispersed /\ focused THEN ref.rotation * 5 * d
     ELSE IF dispersed THEN ref.rotation * 100 * d
     ELSE IF focused THEN ref.rotation * 50 * d
     ELSE ref.rotation * 1000 * d

C24_DetectedHasCursor ==
  gestureRef.isHandDetected
    => gestureRef.cursor # Undefined /\ gestureRef.isPinching # Undefined

\* C24 witness: a hand was detected, a later frame threw in the detector
\* and the mode was switched back to MOUSE.
C24_Witness ==
  /\ gestureRef.isHandDetected
  /\ gestureRef.cursor # Undefined /\ gestureRef.isPinching # Undefined
  /\ lastTick.kind = "threw"
  /\ interactionMode = MOUSE

\* The tree pose of photo i under active dispersion ad, written directly.
RestPose(i, ad) ==
  [pos |-> Exact(TreePos(i, ad)), quat |-> Exact(TreeQuat(i)), scale |-> Exact(TreeScale(ad))]

\* C25: after a frame that leaves a photo's progress below 0.001 the
\* photo's lockedState is null and the photo is exactly at its tree pose,
\* which owes nothing to the camera.
C25_RestClearsLock ==
  [][RenderStep
       => \A i \in 1 .. Len(photos) :
            1000 * progress'[i] < Scale
              => /\ lockedState'[i] = NoLock
                 /\ pose'[i] = RestPose(i, ActiveDispersion(interactionMode,
                                                            gestureRef.dispersion))]_vars

\* C25 witness: a photo that was focused has overshot below zero on its way
\* back; its cache is cleared and it sits at its tree pose.
C25_Witness ==
  \E i \in 1 .. Len(photos) :
    /\ progress[i] < 0
    /\ lockedState[i] = NoLock
    /\ pose[i] = RestPose(i, 0)

\* The lock computed from the camera at azimuth cam with the scene at yaw y.
FreshLock(cam, y) ==
  <<[pos |-> LockedPos(cam, y), quat |-> LockedQuat(cam, y), scale |-> LockedScale]>>

\* C26: a photo that still holds a cache from an earlier focus episode
\* (its progress has left 0.99 without falling below 0.001) and reaches
\* 0.99 again locks to the pose computed from the camera in that frame.
C26_RelockRecomputes ==
  [][\A d \in SlowDeltas, cam \in CamAzimuths, r \in 0 .. (NumPhotos - 1) :
       RenderTick(d, cam, r)
         => \A i \in 1 .. Len(photos) :
              (/\ lockedState[i] # NoLock
               /\ ~NearlyLocked(progress[i])
               /\ NearlyLocked(progress'[i]))
                => lockedState'[i] = FreshLock(cam, yaw)]_vars

\* C27: the React state isHandDetected follows hand presence: it equals the
\* isHandDetected value of the last gesture update the running loop
\* delivered (both start false, and every update that differs from the
\* state sets it).
C27_StateFollowsHand == isHandDetectedState = gestureRef.isHandDetected

\* The next render tick would take the random pick.
PickEnabled == SelectionActive(interactionMode, gestureRef) /\ PickAllowed(gestureRef)

C29_SingleInit == initsPending <= 1 /\ landmarkers <= 1

\* gestureRef with its gesture signal (rotation, dispersion, isHandDetected,
\* cursor, isPinching) replaced by that of payload g.
WithSignal(ref, g) ==
  [ref EXCEPT !.rotation = g.rotation, !.dispersion = g.dispersion,
              !.isHandDetected = g.isHandDetected, !.cursor = g.cursor,
              !.isPinching = g.isPinching]

\* The gesture signals of the second run.
AltSignals == {Interpret(h) : h \in MouseHands} \cup {HandLostPayload}

\* C30: in MOUSE mode a render tick adds 0.1 * delta to the yaw (times
\* 0.05 when a photo is focused), leaves focusedId alone and puts resting
\* photos at the rest pose of dispersion 0, and a particles frame moves
\* uDispersion towards 0; a second run from the same state with any other
\* gesture signal in gestureRef gives the same yaw, poses, focusedId and
\* uDispersion.
C30_MouseIgnoresGesture ==
  [][/\ \A d \in UnitDeltas, r \in 0 .. (NumPhotos - 1) :
          (RenderTick(d, RotateCam, r) /\ interactionMode = MOUSE)
            => /\ gestureRef'.focusedId = gestureRef.focusedId
               /\ yawStep' = (IF gestureRef.focusedId # NullId THEN 5000 ELSE 100000) * d
               /\ \A i \in 1 .. Len(photos) :
                    AtRest(progress'[i]) => pose'[i] = RestPose(i, 0)
               /\ \A g \in AltSignals :
                    LET alt == WithSignal(gestureRef, g)
                    IN /\ SceneSpeed(interactionMode, alt) * d = yawStep'
                       /\ NextYaw(yaw, interactionMode, alt, d) = yaw'
                       /\ SelectFocus(interactionMode, alt, photos, r) = gestureRef'.focusedId
                       /\ \A i \in 1 .. Len(photos) :
                            FramePose(i, progress'[i], lockedState[i],
                                      ActiveDispersion(interactionMode, alt.dispersion),
                                      RotateCam, yaw) = pose'[i]
     /\ (ParticlesFrame /\ interactionMode = MOUSE)
          => /\ uDispersion' = LerpDispersion(uDispersion, 0)
             /\ \A g \in AltSignals :
                  LerpDispersion(uDispersion,
                                 TargetDispersion(interactionMode, WithSignal(gestureRef, g)))
                    = uDispersion']_vars

\* C30 witness: in MOUSE mode, with the signal of an open pinching hand left
\* in gestureRef, the last render tick read that pinch, turned the scene by
\* 0.1 * delta and picked nothing, the photos are at rest and uDispersion
\* is on its way back to 0.
C30_Witness ==
  /\ interactionMode = MOUSE
  /\ gestureRef.isHandDetected /\ PinchHeld(gestureRef) /\ gestureRef.rotation # 0
  /\ gestureRef.focusedId = NullId
  /\ prevPinch /\ yawStep = 100000 * 100
  /\ photos # <<>> /\ \A i \in 1 .. Len(photos) : pose[i] = RestPose(i, 0)
  /\ uDispersion > 0 /\ uDispersion < Scale \div 10

====
